---------------------------- MODULE Spec2Model ----------------------------
(***************************************************************************)
(* Model of the /analyze handler of the journal-entry audit API            *)
(* (src/api.py, analyze_je).  One request is one run of the state machine: *)
(* Init is the uploaded file as decoded by the reader, the single action   *)
(* Analyze is the whole handler.                                           *)
(*                                                                         *)
(* Representation                                                          *)
(*   - text (column names, string cells) is a sequence of one-character    *)
(*     strings, so that lower(), "in", str.replace and the numeric / date  *)
(*     parsers are computed and not assumed;                               *)
(*   - a Float64 is an integer number of tenths (Scale);                   *)
(*   - a Datetime is a number of days since 1970-01-01 (the formats carry  *)
(*     no time of day);                                                    *)
(*   - a cell is a record tagged with its kind, Null being the null cell.  *)
(***************************************************************************)
EXTENDS Integers, Sequences, FiniteSets, TLC

VARIABLES file, pc, selected, cleaned, results, response

vars == <<file, pc, selected, cleaned, results, response>>

-----------------------------------------------------------------------------
(* Cells *)

Scale == 10

Null == [t |-> "null"]

Str(s) == [t |-> "str", s |-> s]

F64(v) == [t |-> "f64", v |-> v]

I64(n) == [t |-> "i64", n |-> n]

Dt(d) == [t |-> "datetime", d |-> d]

Bool(b) == [t |-> "bool", b |-> b]

None == [t |-> "None"]

Abs(x) == IF x < 0 THEN -x ELSE x

-----------------------------------------------------------------------------
(* Text primitives *)

UpperCase == <<"A","B","C","D","E","F","G","H","I","J","K","L","M",
               "N","O","P","Q","R","S","T","U","V","W","X","Y","Z">>

LowerCase == <<"a","b","c","d","e","f","g","h","i","j","k","l","m",
               "n","o","p","q","r","s","t","u","v","w","x","y","z">>

LowerChar(c) ==
    IF \E i \in 1..26 : UpperCase[i] = c
    THEN LowerCase[CHOOSE i \in 1..26 : UpperCase[i] = c]
    ELSE c

\* str.lower() / str.to_lowercase()
Lower(s) == [i \in 1..Len(s) |-> LowerChar(s[i])]

\* tok in s
Contains(tok, s) ==
    \E i \in 0..(Len(s) - Len(tok)) : SubSeq(s, i + 1, i + Len(tok)) = tok

Digits == <<"0","1","2","3","4","5","6","7","8","9">>

IsDigit(c) == \E i \in 1..10 : Digits[i] = c

DigitVal(c) == (CHOOSE i \in 1..10 : Digits[i] = c) - 1

AllDigits(s) == \A i \in 1..Len(s) : IsDigit(s[i])

RECURSIVE DecVal(_)
DecVal(s) ==
    IF s = <<>> THEN 0
    ELSE 10 * DecVal(SubSeq(s, 1, Len(s) - 1)) + DigitVal(s[Len(s)])

RECURSIVE NatToStr(_)
NatToStr(n) ==
    IF n < 10 THEN <<Digits[n + 1]>>
    ELSE NatToStr(n \div 10) \o <<Digits[(n % 10) + 1]>>

\* cast(pl.Utf8) of an integer
IntToStr(n) == IF n < 0 THEN <<"-">> \o NatToStr(-n) ELSE NatToStr(n)

\* .str.replace(",", ""): the first match only is replaced
StrReplaceComma(s) ==
    IF \E i \in 1..Len(s) : s[i] = ","
    THEN LET i == CHOOSE k \in 1..Len(s) :
                      s[k] = "," /\ \A j \in 1..(k - 1) : s[j] # ","
         IN  SubSeq(s, 1, i - 1) \o SubSeq(s, i + 1, Len(s))
    ELSE s

\* Text to Float64, strict=False: [-]digits[.digit], anything else is null.
ParseFloat(s) ==
    LET neg  == Len(s) > 0 /\ s[1] = "-"
        body == IF neg THEN SubSeq(s, 2, Len(s)) ELSE s
        dot  == \E i \in 1..Len(body) : body[i] = "."
        p    == IF dot THEN CHOOSE i \in 1..Len(body) :
                               body[i] = "." /\ \A j \in 1..(i - 1) : body[j] # "."
                ELSE Len(body) + 1
        ip   == SubSeq(body, 1, p - 1)
        fp   == SubSeq(body, p + 1, Len(body))
        ok   == /\ Len(ip) > 0
                /\ AllDigits(ip)
                /\ (dot => Len(fp) = 1 /\ AllDigits(fp))
        mag  == DecVal(ip) * Scale + (IF dot THEN DecVal(fp) ELSE 0)
    IN  IF ok THEN F64(IF neg THEN -mag ELSE mag) ELSE Null

-----------------------------------------------------------------------------
(* Dates: str.strptime(pl.Datetime, fmt, strict=False) *)

\* The format list of the handler, each format as its directives and literals.
date_formats == <<
    <<"%Y", "-", "%m", "-", "%d">>,
    <<"%d", "-", "%b", "-", "%Y">>,
    <<"%d", "-", "%b", "-", "%y">>,
    <<"%m", "/", "%d", "/", "%Y">>,
    <<"%d", "/", "%m", "/", "%Y">>,
    <<"%Y", "%m", "%d">>,
    <<"%B", " ", "%d", ",", " ", "%Y">>,
    <<"%b", " ", "%d", ",", " ", "%Y">>,
    <<"%d", "-", "%m", "-", "%Y">>,
    <<"%m", "-", "%d", "-", "%Y">> >>

MonthNames == <<
    <<"j","a","n","u","a","r","y">>, <<"f","e","b","r","u","a","r","y">>,
    <<"m","a","r","c","h">>, <<"a","p","r","i","l">>, <<"m","a","y">>,
    <<"j","u","n","e">>, <<"j","u","l","y">>, <<"a","u","g","u","s","t">>,
    <<"s","e","p","t","e","m","b","e","r">>, <<"o","c","t","o","b","e","r">>,
    <<"n","o","v","e","m","b","e","r">>, <<"d","e","c","e","m","b","e","r">> >>

IsLeap(y) == (y % 4 = 0 /\ y % 100 # 0) \/ y % 400 = 0

DaysInMonth(y, m) ==
    IF m = 2 THEN (IF IsLeap(y) THEN 29 ELSE 28)
    ELSE IF m \in {4, 6, 9, 11} THEN 30 ELSE 31

\* Days since 1970-01-01 of a civil date.
DaysFromCivil(y, m, d) ==
    LET yy  == IF m <= 2 THEN y - 1 ELSE y
        era == yy \div 400
        yoe == yy - era * 400
        mp  == IF m > 2 THEN m - 3 ELSE m + 9
        doy == (153 * mp + 2) \div 5 + d - 1
        doe == yoe * 365 + yoe \div 4 - yoe \div 100 + doy
    IN  era * 146097 + doe - 719468

\* The number written in the w characters of s from pos, -1 if they are not digits.
NumAt(s, pos, w) ==
    IF pos + w - 1 <= Len(s) /\ AllDigits(SubSeq(s, pos, pos + w - 1))
    THEN DecVal(SubSeq(s, pos, pos + w - 1))
    ELSE -1

\* The month (1..12) whose name, cut to w characters (0: whole), starts at pos; 0 if none.
MonthAt(s, pos, w) ==
    LET nm(i) == IF w = 0 THEN MonthNames[i] ELSE SubSeq(MonthNames[i], 1, w)
        hit(i) == /\ pos + Len(nm(i)) - 1 <= Len(s)
                  /\ Lower(SubSeq(s, pos, pos + Len(nm(i)) - 1)) = nm(i)
    IN  IF \E i \in 1..12 : hit(i) THEN CHOOSE i \in 1..12 : hit(i) ELSE 0

\* Match s from pos against the directives fmt[k..]; acc collects year, month, day.
RECURSIVE StrptimeFrom(_, _, _, _, _)
StrptimeFrom(s, pos, fmt, k, acc) ==
    IF k > Len(fmt)
    THEN IF /\ pos = Len(s) + 1
            /\ acc.m \in 1..12
            /\ acc.d >= 1 /\ acc.d <= DaysInMonth(acc.y, acc.m)
         THEN Dt(DaysFromCivil(acc.y, acc.m, acc.d))
         ELSE Null
    ELSE LET f == fmt[k] IN
         CASE f = "%Y" ->
                LET v == NumAt(s, pos, 4) IN
                IF v < 0 THEN Null
                ELSE StrptimeFrom(s, pos + 4, fmt, k + 1, [acc EXCEPT !.y = v])
           [] f = "%y" ->
                LET v == NumAt(s, pos, 2) IN
                IF v < 0 THEN Null
                ELSE StrptimeFrom(s, pos + 2, fmt, k + 1,
                         [acc EXCEPT !.y = IF v <= 68 THEN 2000 + v ELSE 1900 + v])
           [] f = "%m" ->
                LET v == NumAt(s, pos, 2) IN
                IF v < 0 THEN Null
                ELSE StrptimeFrom(s, pos + 2, fmt, k + 1, [acc EXCEPT !.m = v])
           [] f = "%d" ->
                LET v == NumAt(s, pos, 2) IN
                IF v < 0 THEN Null
                ELSE StrptimeFrom(s, pos + 2, fmt, k + 1, [acc EXCEPT !.d = v])
           [] f = "%b" ->
                LET v == MonthAt(s, pos, 3) IN
                IF v = 0 THEN Null
                ELSE StrptimeFrom(s, pos + 3, fmt, k + 1, [acc EXCEPT !.m = v])
           [] f = "%B" ->
                LET v == MonthAt(s, pos, 0) IN
                IF v = 0 THEN Null
                ELSE StrptimeFrom(s, pos + Len(MonthNames[v]), fmt, k + 1,
                                  [acc EXCEPT !.m = v])
           [] OTHER ->
                IF pos <= Len(s) /\ s[pos] = f
                THEN StrptimeFrom(s, pos + 1, fmt, k + 1, acc)
                ELSE Null

\* One cell under one format; strict=False turns a mismatch into null.
Strptime(cell, fmt) ==
    IF cell = Null THEN Null
    ELSE StrptimeFrom(cell.s, 1, fmt, 1, [y |-> 0, m |-> 0, d |-> 0])

\* with_columns(str.strptime(...)) raises on a column that is not text.
StrptimeRaises(dtype) == dtype # "str"

\* dt.weekday(): Monday = 1 .. Sunday = 7  (1970-01-01 was a Thursday)
Weekday(d) == ((d + 3) % 7) + 1

-----------------------------------------------------------------------------
(* Schema inference and amount reconciliation *)

\* A decoded file: names and dtypes per column, rows as tuples of cells.
\* Unreadable stands for bytes on which read_csv / read_excel raises.
Unreadable == [t |-> "unreadable"]

Indices(n) == [i \in 1..n |-> i]

\* [c for c in df_full.columns if tok in c.lower() ...], as column positions
Candidates(df, toks) ==
    LET Match(j) == \E tok \in toks : Contains(tok, Lower(df.names[j]))
    IN  SelectSeq(Indices(Len(df.names)), Match)

debit_candidates(df) == Candidates(df, {<<"d","e","b","i","t">>})

credit_candidates(df) == Candidates(df, {<<"c","r","e","d","i","t">>})

amount_candidates(df) ==
    Candidates(df, {<<"a","m","o","u","n","t">>, <<"a","m","t">>})

date_candidates(df) ==
    Candidates(df, {<<"d","a","t","e">>,
                    <<"e","f","f","e","c","t","i","v","e">>,
                    <<"p","o","s","t","e","d">>})

\* The key fields, in the order the handler looks for them.
KeyFields == <<
    [tok |-> <<"a","c","c","o","u","n","t">>, alias |-> "account"],
    [tok |-> <<"d","e","s","c","r","i","p","t","i","o","n">>, alias |-> "description"],
    [tok |-> <<"j","e","_","i","d">>, alias |-> "je_id"],
    [tok |-> <<"c","r","e","a","t","e","d","_","b","y">>, alias |-> "created_by"],
    [tok |-> <<"p","o","s","t","e","d","_","b","y">>, alias |-> "posted_by"],
    [tok |-> <<"c","o","s","t","_","c","e","n","t","e","r">>, alias |-> "cost_center"],
    [tok |-> <<"p","r","o","j","e","c","t">>, alias |-> "project"] >>

CastUtf8(cell) ==
    CASE cell.t = "null" -> Null
      [] cell.t = "str"  -> cell
      [] cell.t = "i64"  -> Str(IntToStr(cell.n))

CastFloat64(cell) ==
    CASE cell.t = "null" -> Null
      [] cell.t = "str"  -> ParseFloat(cell.s)
      [] cell.t = "i64"  -> F64(cell.n * Scale)
      [] cell.t = "f64"  -> cell

StrReplace(cell) == IF cell = Null THEN Null ELSE Str(StrReplaceComma(cell.s))

FillNull(cell, v) == IF cell = Null THEN v ELSE cell

\* One debit or credit cell: cast(Utf8).str.replace(",", "").cast(Float64).fill_null(0.0)
DebitCreditCell(cell) ==
    FillNull(CastFloat64(StrReplace(CastUtf8(cell))), F64(0))

\* A plausible slip: the single amount column tried before the debit/credit pair.
AmountCaseAmountFirst(df) ==
    IF amount_candidates(df) # <<>> THEN "amount"
    ELSE IF debit_candidates(df) # <<>> /\ credit_candidates(df) # <<>> THEN "debit_credit"
    ELSE "none"

\* Which of the three cases of step 1 applies.
AmountCase(df) ==
    IF debit_candidates(df) # <<>> /\ credit_candidates(df) # <<>> THEN "debit_credit"
    ELSE IF amount_candidates(df) # <<>> THEN "amount"
    ELSE "none"

\* amount_series, one cell per row (cases 1 and 2)
amount_series(df) ==
    IF AmountCase(df) = "debit_credit"
    THEN LET dr_col == debit_candidates(df)[1]
             cr_col == credit_candidates(df)[1]
         IN  [i \in 1..Len(df.rows) |->
                 F64(DebitCreditCell(df.rows[i][dr_col]).v
                     - DebitCreditCell(df.rows[i][cr_col]).v)]
    ELSE LET amt_col == amount_candidates(df)[1]
         IN  [i \in 1..Len(df.rows) |-> CastFloat64(df.rows[i][amt_col])]

\* date_col: position of the primary date column, 0 if none
date_col(df) ==
    IF date_candidates(df) # <<>> THEN date_candidates(df)[1] ELSE 0

\* The key fields present, as <<alias, source position>> in handler order
RECURSIVE KeySelection(_, _)
KeySelection(df, k) ==
    IF k > Len(KeyFields) THEN <<>>
    ELSE LET c == Candidates(df, {KeyFields[k].tok})
         IN  (IF c # <<>> THEN <<[alias |-> KeyFields[k].alias, src |-> c[1]]>>
              ELSE <<>>) \o KeySelection(df, k + 1)

\* select_list without the amount: posting_date first, then the key fields
select_list(df) ==
    (IF date_col(df) # 0 THEN <<[alias |-> "posting_date", src |-> date_col(df)]>>
     ELSE <<>>) \o KeySelection(df, 1)

Range(f) == {f[i] : i \in DOMAIN f}

\* selected = df_full.select(select_list)
Select(df) ==
    LET sl    == select_list(df)
        names == <<"amount">> \o [k \in 1..Len(sl) |-> sl[k].alias]
        src(c) == (CHOOSE e \in Range(sl) : e.alias = c).src
        amt   == amount_series(df)
    IN  [cols   |-> names,
         dtypes |-> [c \in Range(names) |->
                        IF c = "amount" THEN "f64" ELSE df.dtypes[src(c)]],
         rows   |-> [i \in 1..Len(df.rows) |->
                        [c \in Range(names) |->
                            IF c = "amount" THEN amt[i] ELSE df.rows[i][src(c)]]]]

-----------------------------------------------------------------------------
(* Date parsing and row cleaning *)

HasCol(tbl, c) == \E k \in 1..Len(tbl.cols) : tbl.cols[k] = c

\* selected.with_columns(strptime(posting_date, fmt))
WithParsedDate(sel, fmt) ==
    [sel EXCEPT
        !.dtypes = [@ EXCEPT !["posting_date"] = "datetime"],
        !.rows = [i \in 1..Len(sel.rows) |->
                     [sel.rows[i] EXCEPT
                         !["posting_date"] = Strptime(@, fmt)]]]

DropCol(tbl, c) ==
    LET Keep(x) == x # c
        names == SelectSeq(tbl.cols, Keep)
    IN  [cols   |-> names,
         dtypes |-> [x \in Range(names) |-> tbl.dtypes[x]],
         rows   |-> [i \in 1..Len(tbl.rows) |->
                        [x \in Range(names) |-> tbl.rows[i][x]]]]

\* The for loop over date_formats from format k on.  `parsed` is bound to the
\* expression of format k (here: k) before with_columns runs, so it stays bound
\* when with_columns raises; 0 stands for None.
RECURSIVE ParseLoop(_, _, _)
ParseLoop(sel, k, parsed) ==
    IF k > Len(date_formats) THEN [parsed |-> parsed, selected |-> sel]
    ELSE IF StrptimeRaises(sel.dtypes["posting_date"])
         THEN ParseLoop(sel, k + 1, k)
         ELSE [parsed |-> k, selected |-> WithParsedDate(sel, date_formats[k])]

\* "Smart Date Parsing"
ParseDates(sel) ==
    IF HasCol(sel, "posting_date")
    THEN LET r == ParseLoop(sel, 1, 0)
         IN  IF r.parsed = 0
             THEN (IF HasCol(r.selected, "posting_date")
                   THEN DropCol(r.selected, "posting_date") ELSE r.selected)
             ELSE r.selected
    ELSE sel

\* A plausible slip: the posting_date filter left out.
CleanAmountOnly(sel) ==
    LET AmountNotNull(r) == r["amount"] # Null
    IN  [sel EXCEPT !.rows = SelectSeq(sel.rows, AmountNotNull)]

\* "Clean Invalid Rows"
Clean(sel) ==
    LET AmountNotNull(r) == r["amount"] # Null
        DateNotNull(r)   == r["posting_date"] # Null
        c1 == [sel EXCEPT !.rows = SelectSeq(sel.rows, AmountNotNull)]
    IN  IF HasCol(c1, "posting_date")
        THEN [c1 EXCEPT !.rows = SelectSeq(c1.rows, DateNotNull)]
        ELSE c1

-----------------------------------------------------------------------------
(* Anomaly detection *)

RoundLargeMin == 1000

NearZeroMax == 1

WeekendFrom == 6

HighValueMinRows == 10

QuantileNum == 99

QuantileDen == 100

SuspiciousWords == {
    <<"a","d","j","u","s","t">>, <<"m","i","s","c">>, <<"m","a","n","u","a","l">>,
    <<"o","v","e","r","r","i","d","e">>, <<"e","r","r","o","r">>, <<"t","e","m","p">>,
    <<"r","e","v","e","r","s","a","l">>, <<"c","o","r","r","e","c","t","i","o","n">>,
    <<"c","l","e","a","r","i","n","g">>, <<"s","u","s","p","e","n","s","e">>,
    <<"m","i","s","c","e","l","l","a","n","e","o","u","s">> }

\* The seven flag columns, in the order anomaly_exprs is built.
FlagNames == <<"Round Large Amount", "Near-Zero Amount", "Suspicious Description",
               "Weekend Entry", "Duplicate Entry", "High-Value Entry",
               "Repeating Entry">>

\* "Entry" in col, for the names a result column can have: of the canonical
\* columns and the flag columns, these four contain the text "Entry".
ContainsEntry(col) ==
    col \in {"Weekend Entry", "Duplicate Entry", "High-Value Entry", "Repeating Entry"}

AbsAmount(r) == Abs(r["amount"].v)

RoundLargeAmount(r) ==
    Bool(AbsAmount(r) % Scale = 0 /\ AbsAmount(r) > RoundLargeMin * Scale)

NearZeroAmount(r) == Bool(AbsAmount(r) < NearZeroMax * Scale)

\* str.to_lowercase().is_in([...]); a null description stays null
SuspiciousDescription(cl, r) ==
    IF HasCol(cl, "description")
    THEN (IF r["description"] = Null THEN Null
          ELSE Bool(Lower(r["description"].s) \in SuspiciousWords))
    ELSE Bool(FALSE)

WeekendEntry(cl, r) ==
    IF HasCol(cl, "posting_date")
    THEN FillNull(IF r["posting_date"] = Null THEN Null
                  ELSE Bool(Weekday(r["posting_date"].d) >= WeekendFrom),
                  Bool(FALSE))
    ELSE Bool(FALSE)

\* pl.struct(keys).is_duplicated() at row i
IsDuplicated(cl, keys, i) ==
    \E j \in 1..Len(cl.rows) :
        j # i /\ \A c \in keys : cl.rows[j][c] = cl.rows[i][c]

\* A plausible slip: the amount kept among the keys.
group_keysWithAmount(cl) == Range(cl.cols)

group_keys(cl) == Range(cl.cols) \ {"amount"}

DuplicateEntry(cl, i) ==
    IF group_keys(cl) # {} THEN Bool(IsDuplicated(cl, group_keys(cl), i))
    ELSE Bool(FALSE)

\* A plausible slip: "lower" interpolation, floor(0.99 * (n - 1)).
QuantileIdxLower(n) == (QuantileNum * (n - 1)) \div QuantileDen

\* Index of the 0.99 quantile among n sorted values, "nearest" interpolation:
\* round(0.99 * (n - 1)), halves away from zero.
QuantileIdx(n) == (2 * QuantileNum * (n - 1) + QuantileDen) \div (2 * QuantileDen)

\* The value at 0-based position idx of vals sorted ascending.
KthSmallest(vals, idx) ==
    CHOOSE v \in Range(vals) :
        /\ Cardinality({i \in DOMAIN vals : vals[i] < v}) <= idx
        /\ Cardinality({i \in DOMAIN vals : vals[i] <= v}) > idx

\* threshold = quantile(0.99) of abs(amount) over the cleaned set
threshold(cl) ==
    KthSmallest([i \in 1..Len(cl.rows) |-> AbsAmount(cl.rows[i])],
                QuantileIdx(Len(cl.rows)))

\* A plausible slip: a strict comparison with the threshold.
HighValueEntryStrict(cl, r) ==
    IF Len(cl.rows) > HighValueMinRows THEN Bool(AbsAmount(r) > threshold(cl))
    ELSE Bool(FALSE)

HighValueEntry(cl, r) ==
    IF Len(cl.rows) > HighValueMinRows THEN Bool(AbsAmount(r) >= threshold(cl))
    ELSE Bool(FALSE)

RepeatingEntry(cl, i) ==
    IF HasCol(cl, "description") /\ HasCol(cl, "account")
    THEN Bool(IsDuplicated(cl, {"account", "amount", "description"}, i))
    ELSE Bool(FALSE)

\* The expressions that raise when results = cleaned.with_columns(...) runs:
\* the str namespace on a description that is not text, the dt namespace on a
\* posting_date that is not temporal.
AnomalyExprsRaise(cl) ==
    \/ HasCol(cl, "description") /\ cl.dtypes["description"] # "str"
    \/ HasCol(cl, "posting_date") /\ cl.dtypes["posting_date"] # "datetime"

\* anomaly_cols
anomaly_cols(cols) ==
    LET Pick(c) == c # "amount" /\ c # "Has Anomaly" /\ ContainsEntry(c)
    IN  SelectSeq(cols, Pick)

\* results: cleaned with the seven flags and Has Anomaly
Results(cl) ==
    LET cols1 == cl.cols \o FlagNames
        flag(i, c) ==
            CASE c = "Round Large Amount"     -> RoundLargeAmount(cl.rows[i])
              [] c = "Near-Zero Amount"       -> NearZeroAmount(cl.rows[i])
              [] c = "Suspicious Description" -> SuspiciousDescription(cl, cl.rows[i])
              [] c = "Weekend Entry"          -> WeekendEntry(cl, cl.rows[i])
              [] c = "Duplicate Entry"        -> DuplicateEntry(cl, i)
              [] c = "High-Value Entry"       -> HighValueEntry(cl, cl.rows[i])
              [] c = "Repeating Entry"        -> RepeatingEntry(cl, i)
        row1(i) == [c \in Range(cols1) |->
                       IF c \in Range(cl.cols) THEN cl.rows[i][c] ELSE flag(i, c)]
        acols == anomaly_cols(cols1)
        any(r) == Bool(\E k \in 1..Len(acols) : r[acols[k]] = Bool(TRUE))
        cols2 == cols1 \o <<"Has Anomaly">>
    IN  [cols |-> cols2,
         rows |-> [i \in 1..Len(cl.rows) |->
                     LET r == row1(i)
                     IN  [c \in Range(cols2) |->
                            IF c = "Has Anomaly" THEN any(r) ELSE r[c]]]]

-----------------------------------------------------------------------------
(* Summary and response *)

RECURSIVE SumAmounts(_, _)
SumAmounts(rows, absolute) ==
    IF rows = <<>> THEN 0
    ELSE (IF absolute THEN Abs(rows[1]["amount"].v) ELSE rows[1]["amount"].v)
         + SumAmounts(Tail(rows), absolute)

\* round(abs(total_net) / (abs_total + 1e-6) * 100, 2), in hundredths of a
\* percent: the epsilon only decides the zero total and the exact halves.
ImbalancePct(total_net, abs_total) ==
    IF abs_total = 0 THEN 0
    ELSE (2 * Abs(total_net) * 10000 + abs_total - 1) \div (2 * abs_total)

Count(rows, c) == Cardinality({i \in 1..Len(rows) : rows[i][c] = Bool(TRUE)})

Success(res) ==
    LET IsAnomaly(r) == r["Has Anomaly"] = Bool(TRUE)
        anomalies == SelectSeq(res.rows, IsAnomaly)
        acols     == anomaly_cols(res.cols)
        total_net == SumAmounts(res.rows, FALSE)
        abs_total == SumAmounts(res.rows, TRUE)
    IN  [success |-> TRUE,
         summary |-> ("Total Entries" :> Len(res.rows)
                      @@ "Net Balance" :> total_net
                      @@ "Imbalance %" :> ImbalancePct(total_net, abs_total)
                      @@ "Anomalies Found" :> Len(anomalies)),
         charts |-> [anomalies |-> [c \in Range(acols) |-> Count(anomalies, c)]],
         anomalies_data |-> anomalies]

\* except Exception as e: return {"success": False, "error": str(e)}
Failure(msg) == [success |-> FALSE, error |-> msg]

\* A plausible slip: testing the columns instead of the rows.
IsEmptyFileByColumns(df) == Len(df.names) = 0

\* len(df_full) == 0
IsEmptyFile(df) == Len(df.rows) = 0

\* The handler: the locals it got to, and what it returns.
analyze_je(f) ==
    IF f = Unreadable
    THEN [response |-> Failure("read error"),
          selected |-> None, cleaned |-> None, results |-> None]
    ELSE IF IsEmptyFile(f)
    THEN [response |-> Failure("400: File is empty"),
          selected |-> None, cleaned |-> None, results |-> None]
    ELSE IF AmountCase(f) = "none"
    THEN [response |-> Failure("400: No amount column found"),
          selected |-> None, cleaned |-> None, results |-> None]
    ELSE LET sel == ParseDates(Select(f))
             cl  == Clean(sel)
         IN  IF AnomalyExprsRaise(cl)
             THEN [response |-> Failure("invalid series dtype"),
                   selected |-> sel, cleaned |-> cl, results |-> None]
             ELSE LET res == Results(cl)
                  IN  [response |-> Success(res),
                       selected |-> sel, cleaned |-> cl, results |-> res]

-----------------------------------------------------------------------------
(* Uploaded files *)

MaxRows == 2

MaxLow == 51

MaxOther == 1

\* Column kinds: a header, the dtype the reader infers, and sample cells.
ColAmount == [name |-> <<"A","m","o","u","n","t">>, dtype |-> "str",
              cells |-> {Str(<<"0",".","5">>), Str(<<"2","0","0","0">>), Str(<<"x">>), Str(<<"-","5","0">>)}]

ColAmt == [name |-> <<"A","m","t">>, dtype |-> "i64", cells |-> {I64(7), I64(-3), Null}]

ColDebit == [name |-> <<"D","e","b","i","t">>, dtype |-> "str",
             cells |-> {Str(<<"1","0","0">>), Str(<<"1",",","2","3","4">>), Str(<<"1",",","2","3","4",",","5","6","7">>), Str(<<"x">>)}]

ColCredit == [name |-> <<"C","r","e","d","i","t">>, dtype |-> "str",
              cells |-> {Str(<<"5","0">>), Str(<<"2",",","0","0","0",",","0","0","0">>), Null}]

ColNetDebit == [name |-> <<"N","e","t","_","D","e","b","i","t">>, dtype |-> "i64", cells |-> {I64(3), I64(8)}]

ColDebitAlt == [name |-> <<"D","E","B","I","T"," ","2">>, dtype |-> "i64", cells |-> {I64(40)}]

ColCreditInt == [name |-> <<"c","r","e","d","i","t">>, dtype |-> "i64", cells |-> {I64(1)}]

ColCreditAlt == [name |-> <<"C","r","e","d","i","t","_","A","l","t">>, dtype |-> "i64", cells |-> {I64(2)}]

ColDebitCredit == [name |-> <<"D","e","b","i","t","/","C","r","e","d","i","t">>, dtype |-> "str",
                   cells |-> {Str(<<"5">>), Str(<<"x">>)}]

\* 2024-01-06 is a Saturday, 2024-01-08 a Monday.
ColDate == [name |-> <<"D","a","t","e">>, dtype |-> "str",
            cells |-> {Str(<<"2","0","2","4","-","0","1","-","0","6">>), Str(<<"2","0","2","4","-","0","1","-","0","8">>), Str(<<"0","1","/","0","6","/","2","0","2","4">>), Null}]

ColDateInt == [name |-> <<"P","o","s","t","i","n","g"," ","D","a","t","e">>, dtype |-> "i64",
               cells |-> {I64(20240106), Null}]

ColDateTime == [name |-> <<"E","f","f","e","c","t","i","v","e">>, dtype |-> "datetime",
                cells |-> {Dt(19728), Dt(19730), Null}]

ColDescription == [name |-> <<"D","e","s","c","r","i","p","t","i","o","n">>, dtype |-> "str",
                   cells |-> {Str(<<"M","i","s","c">>), Str(<<"r","e","n","t">>), Null}]

ColAccount == [name |-> <<"A","c","c","o","u","n","t">>, dtype |-> "str",
               cells |-> {Str(<<"A">>), Str(<<"B">>)}]

ColPostedBy == [name |-> <<"P","o","s","t","e","d","_","B","y">>, dtype |-> "str", cells |-> {Str(<<"b","o","b">>)}]

ColMemo == [name |-> <<"M","e","m","o">>, dtype |-> "str", cells |-> {Str(<<"z">>)}]

Layouts == {
    <<ColAmount>>,
    <<ColDebit, ColCredit>>,
    <<ColAmt, ColNetDebit, ColDebitAlt, ColCreditInt>>,
    <<ColNetDebit, ColAmt, ColDebitAlt, ColCreditAlt, ColCreditInt>>,
    <<ColCreditAlt, ColDebitAlt, ColNetDebit>>,
    <<ColDebitCredit>>,
    <<ColCreditInt, ColAmt>>,
    <<ColNetDebit>>,
    <<ColMemo>>,
    <<ColAmt, ColDate>>,
    <<ColAmt, ColDateInt>>,
    <<ColAmt, ColDateTime>>,
    <<ColAmt, ColDescription, ColAccount>>,
    <<ColAmt, ColPostedBy>> }

\* All rows for a layout: one sample cell per column.
RowsOf(layout) ==
    {r \in [1..Len(layout) -> UNION {layout[j].cells : j \in 1..Len(layout)}] :
        \A j \in 1..Len(layout) : r[j] \in layout[j].cells}

Table(layout, rows) ==
    [names  |-> [j \in 1..Len(layout) |-> layout[j].name],
     dtypes |-> [j \in 1..Len(layout) |-> layout[j].dtype],
     rows   |-> rows]

TablesOf(layout) ==
    {Table(layout, rows) :
        rows \in UNION {[1..n -> RowsOf(layout)] : n \in 0..MaxRows}}

Files == {Unreadable} \cup UNION {TablesOf(l) : l \in Layouts}

\* Single-amount tables for the quantile: nl low amounts and up to MaxOther
\* each of a high, a middle and an unparseable cell, in either order.
Repeat(cell, n) == [i \in 1..n |-> <<cell>>]

Reverse(q) == [i \in 1..Len(q) |-> q[Len(q) + 1 - i]]

HighValueTable(nl, nh, nm, nj, rev) ==
    LET rows == Repeat(Str(<<"2">>), nl) \o Repeat(Str(<<"-","9">>), nh)
                \o Repeat(Str(<<"5",".","5">>), nm) \o Repeat(Str(<<"x">>), nj)
    IN  Table(<<ColAmount>>, IF rev THEN Reverse(rows) ELSE rows)

HighValueFiles ==
    {HighValueTable(nl, nh, nm, nj, rev) :
        nl \in 0..MaxLow, nh \in 0..MaxOther, nm \in 0..MaxOther,
        nj \in 0..MaxOther, rev \in BOOLEAN}

-----------------------------------------------------------------------------
(* The request *)

Init ==
    /\ file \in Files
    /\ pc = "received"
    /\ selected = None
    /\ cleaned = None
    /\ results = None
    /\ response = None

InitHighValue ==
    /\ file \in HighValueFiles
    /\ pc = "received"
    /\ selected = None
    /\ cleaned = None
    /\ results = None
    /\ response = None

\* POST /analyze
Analyze ==
    /\ pc = "received"
    /\ LET out == analyze_je(file)
       IN  /\ selected' = out.selected
           /\ cleaned' = out.cleaned
           /\ results' = out.results
           /\ response' = out.response
    /\ pc' = "responded"
    /\ UNCHANGED file

Next == Analyze

Spec == Init /\ [][Next]_vars

SpecHighValue == InitHighValue /\ [][Next]_vars

-----------------------------------------------------------------------------
(* Vocabulary of the properties *)

Responded == pc = "responded"

Succeeded == pc = "responded" /\ response.success

IsTrue(r, c) == r[c] = Bool(TRUE)

\* Column j of the uploaded table has tok in its lower-cased name.
Named(j, tok) == Contains(tok, Lower(file.names[j]))

HasNamed(tok) == \E j \in 1..Len(file.names) : Named(j, tok)

\* The first column, in original order, with tok in its name.
FirstNamed(tok) ==
    CHOOSE j \in 1..Len(file.names) :
        Named(j, tok) /\ \A k \in 1..(j - 1) : ~Named(k, tok)

TokDebit == <<"d","e","b","i","t">>

TokCredit == <<"c","r","e","d","i","t">>

TokAmount == <<"a","m","o","u","n","t">>

TokAmt == <<"a","m","t">>

PairResolves == HasNamed(TokDebit) /\ HasNamed(TokCredit)

AmountResolves == HasNamed(TokAmount) \/ HasNamed(TokAmt)

FirstAmountColumn ==
    CHOOSE j \in 1..Len(file.names) :
        /\ Named(j, TokAmount) \/ Named(j, TokAmt)
        /\ \A k \in 1..(j - 1) : ~(Named(k, TokAmount) \/ Named(k, TokAmt))

\* The text of a cell with every comma removed, read as a number; 0 if it is none.
NumberWritten(cell) ==
    LET NotComma(c) == c # ","
        txt == CastUtf8(cell)
        val == IF txt = Null THEN Null ELSE ParseFloat(SelectSeq(txt.s, NotComma))
    IN  IF val = Null THEN 0 ELSE val.v

\* Rows of the result whose abs(amount) is strictly above that of every other row.
Outliers ==
    {i \in 1..Len(results.rows) :
        \A j \in 1..Len(results.rows) :
            j # i => AbsAmount(results.rows[i]) > AbsAmount(results.rows[j])}

\* Rows of the result with the largest abs(amount).
Largest ==
    {i \in 1..Len(results.rows) :
        \A j \in 1..Len(results.rows) :
            AbsAmount(results.rows[i]) >= AbsAmount(results.rows[j])}

\* Rows of `selected` the Row Cleaner must keep.
Survivors ==
    {i \in 1..Len(selected.rows) :
        /\ selected.rows[i]["amount"] # Null
        /\ HasCol(selected, "posting_date") => selected.rows[i]["posting_date"] # Null}

\* The k-th survivor in row order.
Survivor(k) == CHOOSE i \in Survivors : Cardinality({j \in Survivors : j <= i}) = k

\* Rows i and j of tbl agree on every column of tbl other than the amount.
SameKey(tbl, i, j) ==
    \A c \in Range(tbl.cols) \ {"amount"} : tbl.rows[i][c] = tbl.rows[j][c]

-----------------------------------------------------------------------------
(* Properties *)

\* C1: on success, Has Anomaly is true for a row iff at least one of the seven
\* flags is true for it, and every row with a true flag is in anomalies_data.
C1_HasAnomalyIffAnyFlag ==
    Succeeded =>
        \A i \in 1..Len(results.rows) :
            LET r == results.rows[i]
                flagged == \E c \in Range(FlagNames) : IsTrue(r, c)
            IN  /\ IsTrue(r, "Has Anomaly") <=> flagged
                /\ flagged => r \in Range(response.anomalies_data)

\* C2: on success, charts.anomalies has a count for each of the seven flags,
\* equal to the number of cleaned rows on which the flag is true.
C2_ChartsCountEveryFlag ==
    Succeeded =>
        \A c \in Range(FlagNames) :
            /\ c \in DOMAIN response.charts.anomalies
            /\ response.charts.anomalies[c]
                   = Cardinality({i \in 1..Len(results.rows) : IsTrue(results.rows[i], c)})

\* C3: when a date column resolves and the parse raises for every format, the
\* request succeeds without posting_date: no row is dropped for a null date
\* and Weekend Entry is false on every row.
C3_UnparsedDateRoleDropped ==
    (/\ Responded
     /\ file # Unreadable
     /\ Len(file.rows) > 0
     /\ PairResolves \/ AmountResolves
     /\ date_col(file) # 0
     /\ StrptimeRaises(file.dtypes[date_col(file)]))
    => /\ response.success
       /\ ~HasCol(cleaned, "posting_date")
       /\ Len(cleaned.rows)
              = Cardinality({i \in 1..Len(selected.rows) :
                                selected.rows[i]["amount"] # Null})
       /\ \A i \in 1..Len(results.rows) : ~IsTrue(results.rows[i], "Weekend Entry")

\* C4: in debit/credit mode every comma is removed from a debit or credit cell
\* before it is read as a number, and amount = debit - credit on every row.
C4_AllCommasStripped ==
    (Responded /\ selected # None /\ PairResolves) =>
        \A i \in 1..Len(file.rows) :
            selected.rows[i]["amount"]
                = F64(NumberWritten(file.rows[i][FirstNamed(TokDebit)])
                      - NumberWritten(file.rows[i][FirstNamed(TokCredit)]))

\* C5 as claimed: in a single-amount table with more than 10 cleaned rows, of
\* any size, and one row strictly above all others, that row alone is flagged
\* High-Value Entry.
C5_OutlierAloneFlaggedAnySize ==
    (/\ Succeeded
     /\ ~PairResolves
     /\ Len(results.rows) > HighValueMinRows
     /\ Outliers # {})
    => \A i \in 1..Len(results.rows) :
           IsTrue(results.rows[i], "High-Value Entry") <=> i \in Outliers

\* C5 amended: the same for a cleaned set of 11 to 51 rows, the sizes at which
\* the nearest-rank 0.99 quantile is the maximum.
C5_OutlierAloneFlaggedUpTo51 ==
    (/\ Succeeded
     /\ ~PairResolves
     /\ Len(results.rows) > HighValueMinRows
     /\ Len(results.rows) <= 51
     /\ Outliers # {})
    => \A i \in 1..Len(results.rows) :
           IsTrue(results.rows[i], "High-Value Entry") <=> i \in Outliers

C5_Witness ==
    /\ Succeeded
    /\ ~PairResolves
    /\ Len(results.rows) > HighValueMinRows
    /\ Len(results.rows) <= 51
    /\ Outliers # {}
    /\ \E i \in Outliers : IsTrue(results.rows[i], "High-Value Entry")
    /\ Len(results.rows) < Len(file.rows)

\* C6: the response has exactly one of the two shapes, and an empty table or a
\* table with no amount-bearing column gets the failure shape; the handler
\* always returns a response.
C6_TwoPayloadShapes ==
    Responded =>
        /\ \/ /\ response.success = TRUE
              /\ DOMAIN response = {"success", "summary", "charts", "anomalies_data"}
           \/ /\ response.success = FALSE
              /\ DOMAIN response = {"success", "error"}
        /\ (file # Unreadable /\ (Len(file.rows) = 0 \/ ~(PairResolves \/ AmountResolves)))
               => response.success = FALSE

C6_Witness ==
    /\ Responded
    /\ file # Unreadable
    /\ Len(file.rows) = 0
    /\ AmountResolves
    /\ response.success = FALSE

\* C7: the cleaned set is exactly the rows of the selected table with a non-null
\* amount and, when posting_date is in the schema, a non-null posting_date, in
\* their original order; Total Entries is its size and never above the raw count.
C7_CleanedIsSurvivors ==
    (Responded /\ cleaned # None) =>
        /\ Len(cleaned.rows) = Cardinality(Survivors)
        /\ \A k \in 1..Len(cleaned.rows) : cleaned.rows[k] = selected.rows[Survivor(k)]
        /\ Len(cleaned.rows) <= Len(file.rows)
        /\ response.success =>
               response.summary["Total Entries"] = Len(cleaned.rows)

C7_Witness ==
    /\ Succeeded
    /\ HasCol(selected, "posting_date")
    /\ \E i \in 1..Len(selected.rows) :
           selected.rows[i]["amount"] # Null /\ selected.rows[i]["posting_date"] = Null
    /\ Len(cleaned.rows) = 1
    /\ Survivor(1) = 2

\* C8: whenever a debit-named and a credit-named column exist, every amount is
\* first debit column - first credit column, whatever amount columns exist; the
\* first amount column is used only when the pair does not resolve.
C8_DebitCreditPrecedence ==
    (Responded /\ selected # None) =>
        \A i \in 1..Len(file.rows) :
            selected.rows[i]["amount"]
                = IF PairResolves
                  THEN F64(DebitCreditCell(file.rows[i][FirstNamed(TokDebit)]).v
                           - DebitCreditCell(file.rows[i][FirstNamed(TokCredit)]).v)
                  ELSE CastFloat64(file.rows[i][FirstAmountColumn])

C8_Witness ==
    /\ Responded
    /\ selected # None
    /\ PairResolves
    /\ AmountResolves
    /\ FirstAmountColumn < FirstNamed(TokDebit)
    /\ \E j \in 1..Len(file.names) : j > FirstNamed(TokDebit) /\ Named(j, TokDebit)
    /\ \E i \in 1..Len(file.rows) :
           selected.rows[i]["amount"] # CastFloat64(file.rows[i][FirstAmountColumn])

C10_HighValueIffMoreThanTen ==
    Succeeded =>
        /\ (\E i \in 1..Len(results.rows) : IsTrue(results.rows[i], "High-Value Entry"))
               <=> Len(results.rows) > HighValueMinRows
        /\ Len(results.rows) > HighValueMinRows =>
               /\ \A i \in Largest : IsTrue(results.rows[i], "High-Value Entry")
               /\ response.summary["Anomalies Found"] >= 1

C10_Witness ==
    /\ Succeeded
    /\ Len(results.rows) > HighValueMinRows
    /\ \E i \in Largest : IsTrue(results.rows[i], "High-Value Entry")
    /\ \E i \in 1..Len(results.rows) : ~IsTrue(results.rows[i], "High-Value Entry")
    /\ response.summary["Anomalies Found"] >= 1

=============================================================================
